---- MODULE Spec2Model ----
(***************************************************************************)
(* Model of the Financial_Planner simulation engine                        *)
(* (src/finance_manager.py and the entity classes it drives).              *)
(*                                                                         *)
(* Money and rates are Python floats in the source.  They are modelled as  *)
(* exact rationals <<n, d>> in lowest terms with d > 0, so that sums,      *)
(* products and quotients are the real-number results of the code's        *)
(* expressions; round(x, 2) is modelled by Round2.                         *)
(***************************************************************************)
EXTENDS Integers, Sequences, FiniteSets, TLC

VARIABLES fm, fm2, rng, failed, removed

vars == <<fm, fm2, rng, failed, removed>>

(***************************************************************************)
(* Bounds of the exploration.                                              *)
(***************************************************************************)
MaxEntities == 2
MaxSteps == 2
MaxRun == 2
MaxFailed == 1
MaxEvents == 2

(***************************************************************************)
(* Rational arithmetic.                                                    *)
(***************************************************************************)
Abs(x) == IF x < 0 THEN -x ELSE x

RECURSIVE Gcd(_, _)
Gcd(a, b) == IF b = 0 THEN a ELSE Gcd(b, a % b)

Rat(n, d) ==
    LET g == Gcd(Abs(n), d)
    IN  IF n = 0 THEN <<0, 1>> ELSE <<n \div g, d \div g>>

Q(n) == <<n, 1>>
Zero == <<0, 1>>
One == <<1, 1>>

\* Sums go through the least common denominator and products cancel
\* crosswise first, which keeps the intermediate integers small.
RAdd(a, b) ==
    LET g == Gcd(a[2], b[2])
    IN  Rat(a[1] * (b[2] \div g) + b[1] * (a[2] \div g), (a[2] \div g) * b[2])
RNeg(a) == <<-a[1], a[2]>>
RSub(a, b) == RAdd(a, RNeg(b))
RMul(a, b) ==
    LET g1 == Gcd(Abs(a[1]), b[2])
        g2 == Gcd(Abs(b[1]), a[2])
    IN  IF a[1] = 0 \/ b[1] = 0 THEN <<0, 1>>
        ELSE <<(a[1] \div g1) * (b[1] \div g2), (a[2] \div g2) * (b[2] \div g1)>>
RInv(b) == IF b[1] > 0 THEN <<b[2], b[1]>> ELSE <<-b[2], -b[1]>>
RDiv(a, b) == RMul(a, RInv(b))
RLt(a, b) ==
    LET g == Gcd(a[2], b[2])
    IN  a[1] * (b[2] \div g) < b[1] * (a[2] \div g)
RLe(a, b) == ~RLt(b, a)
RAbs(a) == <<Abs(a[1]), a[2]>>
RMin(a, b) == IF RLe(a, b) THEN a ELSE b
RMax(a, b) == IF RLe(a, b) THEN b ELSE a

\* round(x, 2): the nearest multiple of 0.01, ties to the even one.
Round2(x) ==
    LET q   == x[1] \div x[2]
        r   == x[1] % x[2]
        fl  == (100 * r) \div x[2]
        rem == (100 * r) % x[2]
        up  == IF 2 * rem < x[2] THEN 0
               ELSE IF 2 * rem > x[2] THEN 1
               ELSE IF fl % 2 = 0 THEN 0 ELSE 1
    IN  RAdd(Q(q), Rat(fl + up, 100))

RECURSIVE RSum(_)
RSum(s) == IF s = <<>> THEN Zero ELSE RAdd(s[1], RSum(Tail(s)))

(***************************************************************************)
(* The process-wide numpy random generator.  Its state is one integer; a   *)
(* draw advances it by a full-period linear congruential step and returns  *)
(* state / RngMod, a value of [0, 1).  seed(s) sets the state to s mod     *)
(* RngMod.                                                                 *)
(***************************************************************************)
RngMod == 40
RngMul == 21
RngInc == 7

np_random_seed(seed) == seed % RngMod
np_random_next(state) == (RngMul * state + RngInc) % RngMod
np_random_rand(state) == Rat(np_random_next(state), RngMod)

\* np.random.choice(a = [0.05, 0.1, 0.15, 0.2, 0.3],
\*                  p = [0.6, 0.2, 0.125, 0.05, 0.025]): one uniform draw
\* located in the cumulative distribution.
choice_from(u) ==
    IF RLt(u, <<3, 5>>) THEN <<1, 20>>
    ELSE IF RLt(u, <<4, 5>>) THEN <<1, 10>>
    ELSE IF RLt(u, <<37, 40>>) THEN <<3, 20>>
    ELSE IF RLt(u, <<39, 40>>) THEN <<1, 5>>
    ELSE <<3, 10>>

np_random_choice(state) == choice_from(np_random_rand(state))

(***************************************************************************)
(* Entity constructors.                                                    *)
(***************************************************************************)
Income(name, amount, recurrence, inc, increment_rate) ==
    [name |-> name, amount |-> amount, recurrence |-> recurrence, inc |-> inc,
     increment_rate |-> IF inc THEN increment_rate ELSE Zero, active |-> TRUE]

Expense(name, amount, recurrence, inc, increment_rate) ==
    [name |-> name, amount |-> amount, recurrence |-> recurrence, inc |-> inc,
     increment_rate |-> IF inc THEN increment_rate ELSE Zero, active |-> TRUE]

\* float64 tells that amount is a numpy.float64 and not a Python number: it
\* is one from the first shock on (rate is drawn by np.random.choice), and
\* arithmetic with a numpy.float64 yields a numpy.float64.
Investment(name, amount, yearly_return_rate, volatility, dividend_per) ==
    [name |-> name, amount |-> amount, strt_amount |-> amount,
     yearly_return_rate |-> yearly_return_rate, volatility |-> volatility,
     dividend_per |-> dividend_per, active |-> TRUE, float64 |-> FALSE]

\* calls counts the entries into self.action (instrumentation of line 17).
Event(name, trigger_month, action) ==
    [name |-> name, trigger_month |-> trigger_month, action |-> action,
     executed |-> FALSE, calls |-> 0]

Target(name, check_function, goal_value) ==
    [name |-> name, check_function |-> check_function, goal_value |-> goal_value]

\* The closure built by make_event_action is the tuple of its free variables.
make_event_action(obj_type, obj_name, operation, value) ==
    [obj_type |-> obj_type, obj_name |-> obj_name, operation |-> operation,
     value |-> value]

(***************************************************************************)
(* Inputs: the constructor arguments and the entities the caller adds.     *)
(***************************************************************************)
NoSeed == -1

AllocAB == << [name |-> "A", weight |-> <<3, 5>>], [name |-> "B", weight |-> <<2, 5>>] >>
AllocBad == << [name |-> "A", weight |-> One], [name |-> "B", weight |-> <<-1, 1>>] >>

Configs ==
    { [start_month |-> 0, starting_cash |-> Q(15000), reinvest_dividends |-> FALSE,
       invest_sweep_rate |-> Zero, allocation |-> <<>>, random_seed |-> NoSeed],
      [start_month |-> 0, starting_cash |-> Q(2000), reinvest_dividends |-> TRUE,
       invest_sweep_rate |-> <<1, 2>>, allocation |-> AllocAB, random_seed |-> 42],
      [start_month |-> 11, starting_cash |-> Q(4000), reinvest_dividends |-> FALSE,
       invest_sweep_rate |-> <<1, 2>>, allocation |-> AllocAB, random_seed |-> 7],
      [start_month |-> 0, starting_cash |-> Q(1000), reinvest_dividends |-> TRUE,
       invest_sweep_rate |-> <<1, 2>>, allocation |-> AllocBad, random_seed |-> NoSeed] }

\* The state the generator is in when no seed is given.
UnseededStates == {18}

IncomeInputs ==
    { Income("Salary", Q(20000), 1, FALSE, Zero),
      Income("Bonus", <<1605, 16>>, 2, TRUE, <<1, 20>>),
      Income("Gift", Q(100), 0, FALSE, Zero) }

ExpenseInputs ==
    { Expense("Rent", Q(6000), 1, TRUE, <<1, 20>>),
      Expense("Fee", Q(50), -1, FALSE, Zero) }

InvestmentInputs ==
    { Investment("A", Q(1000), <<1, 10>>, <<1, 2>>, Zero),
      Investment("B", Q(500), <<1, 5>>, Zero, <<6, 5>>) }

EventInputs ==
    { Event("Raise", 1, make_event_action("Income", "Salary", "add", Q(500))),
      Event("Surcharge", 0,
            make_event_action("income", "Bonus", "add_percent", <<1, 20>>)) }

\* Events with one trigger month, on different entities.
SameMonthEventInputs ==
    { Event("Raise", 1, make_event_action("Income", "Salary", "add", Q(500))),
      Event("Cut", 1,
            make_event_action("expense", "Rent", "reduce_percent", <<1, 10>>)) }

\* An income growing by 1/20 every second month.
GrowingIncomeInputs == { Income("Bonus", Q(2000), 2, TRUE, <<1, 20>>) }

\* Events on the growing income and on an investment, due in the first month
\* of a run from month 0 and of a run from month 11.
EntityEventInputs ==
    { Event("Extra", 0, make_event_action("income", "Bonus", "add", Q(400))),
      Event("TopUp", 11, make_event_action("investment", "B", "multiply", Q(2))) }

TargetInputs ==
    { Target("InvestGoal", "total_investments", Q(500)) }

ZeroGoalInputs ==
    { Target("NoGoal", "total_investments", Zero) }

(***************************************************************************)
(* FinanceManager.__init__                                                 *)
(***************************************************************************)
FinanceManager(c) ==
    [month |-> c.start_month, cash |-> c.starting_cash,
     incomes |-> <<>>, expenses |-> <<>>, investments |-> <<>>,
     events |-> <<>>, targets |-> <<>>,
     reinvest_dividends |-> c.reinvest_dividends,
     invest_sweep_rate |-> c.invest_sweep_rate,
     allocation |-> c.allocation,
     history |-> <<>>,
     cash_float64 |-> FALSE]

\* The generator's state after the constructor ran from state old.
SeedOnInit(c, old) ==
    IF c.random_seed # NoSeed THEN np_random_seed(c.random_seed) ELSE old

(***************************************************************************)
(* Entity methods (incomes.py, expenses.py, investments.py).               *)
(***************************************************************************)
\* receive() paying out the monthly equivalent instead of the amount.
Income_receive_equivalent(obj) ==
    IF obj.active THEN RDiv(obj.amount, Q(obj.recurrence)) ELSE Zero

Income_receive(obj) == IF obj.active THEN obj.amount ELSE Zero

Expense_charge(obj) == IF obj.active THEN obj.amount ELSE Zero

\* Income.apply_increment and Expense.apply_increment (the same body).
apply_increment(obj) ==
    IF obj.inc /\ obj.active
    THEN [obj EXCEPT !.amount = RMul(@, RAdd(One, obj.increment_rate))]
    ELSE obj

\* Income.delete, Expense.delete, Investment.delete.
Entity_delete(obj) == [obj EXCEPT !.active = FALSE]

\* monthly_equivalent without the is_active test.
monthly_equivalent_unguarded(obj) == RDiv(obj.amount, Q(obj.recurrence))

monthly_equivalent(obj) ==
    IF obj.active THEN RDiv(obj.amount, Q(obj.recurrence)) ELSE Zero

Investment_add_funds(inv, add_amount) ==
    IF inv.active THEN [inv EXCEPT !.amount = RAdd(@, add_amount)] ELSE inv

\* dividend() returns False when inactive; False / 12.0 is 0.0.
Investment_dividend(inv) ==
    IF inv.active THEN RMul(inv.amount, inv.dividend_per) ELSE Zero

\* yearly_increase without the test of active.
Investment_yearly_increase_unguarded(inv) ==
    [inv EXCEPT !.amount = RMul(@, RAdd(One, inv.yearly_return_rate))]

Investment_yearly_increase(inv) ==
    IF inv.active
    THEN [inv EXCEPT !.amount = RMul(@, RAdd(One, inv.yearly_return_rate))]
    ELSE inv

\* revaluation() multiplying by dir + rate without the abs().
Investment_revalued_signed(inv, u1, u2, u3) ==
    IF inv.active /\ RLt(u1, inv.volatility)
    THEN LET dir  == IF RLt(<<1, 2>>, u2) THEN 1 ELSE -1
             rate == choice_from(u3)
         IN  [inv EXCEPT !.amount = RMul(@, RAdd(Q(dir), rate)),
                         !.float64 = TRUE]
    ELSE inv

\* The investment after revaluation(), u1, u2 and u3 being what
\* np.random.rand(), np.random.rand() and the uniform draw inside
\* np.random.choice return (the last two are drawn only on a shock).
Investment_revalued(inv, u1, u2, u3) ==
    IF inv.active /\ RLt(u1, inv.volatility)
    THEN LET dir  == IF RLt(<<1, 2>>, u2) THEN 1 ELSE -1
             rate == choice_from(u3)
         IN  [inv EXCEPT !.amount = RMul(@, RAbs(RAdd(Q(dir), rate))),
                         !.float64 = TRUE]
    ELSE inv

\* revaluation() taking its three draws whether or not a shock occurs.
Investment_revaluation_fixed_draws(inv, state) ==
    LET s1 == np_random_next(state)
        s2 == np_random_next(s1)
        s3 == np_random_next(s2)
    IN  [inv |-> Investment_revalued(inv, np_random_rand(state),
                                     np_random_rand(s1), np_random_rand(s2)),
         rng |-> IF ~inv.active THEN state ELSE s3]

\* revaluation(): the investment and the generator state after the call.
Investment_revaluation(inv, state) ==
    LET s1 == np_random_next(state)
        s2 == np_random_next(s1)
        s3 == np_random_next(s2)
    IN  [inv |-> Investment_revalued(inv, np_random_rand(state),
                                     np_random_rand(s1), np_random_rand(s2)),
         rng |-> IF ~inv.active THEN state
                 ELSE IF RLt(np_random_rand(state), inv.volatility) THEN s3
                 ELSE s1]

(***************************************************************************)
(* Lookup by type and name, and the event actions built on it.             *)
(***************************************************************************)
EntityTypes == {"income", "expense", "investment", "event", "target"}

\* str.lower() on the type tags in use.
Lower(t) ==
    CASE t = "Income" -> "income"
      [] t = "Expense" -> "expense"
      [] t = "Investment" -> "investment"
      [] t = "Event" -> "event"
      [] t = "Target" -> "target"
      [] OTHER -> t

Collection(f, t) ==
    CASE t = "income" -> f.incomes
      [] t = "expense" -> f.expenses
      [] t = "investment" -> f.investments
      [] t = "event" -> f.events
      [] t = "target" -> f.targets

\* hasattr(obj, "is_active")
HasIsActive(t) == t \in {"income", "expense", "investment"}

MinOf(S) == CHOOSE i \in S : \A j \in S : i <= j

\* get_object: err is "ValueError" for an unknown type; idx is the position
\* of the object returned, 0 for None.
get_object(f, obj_type, obj_name) ==
    LET t == Lower(obj_type)
    IN  IF t \notin EntityTypes
        THEN [err |-> "ValueError", kind |-> t, idx |-> 0]
        ELSE LET coll == Collection(f, t)
                 hits == {i \in 1..Len(coll) :
                            /\ coll[i].name = obj_name
                            /\ IF HasIsActive(t) THEN coll[i].active ELSE TRUE}
             IN  [err |-> "none", kind |-> t,
                  idx |-> IF hits = {} THEN 0 ELSE MinOf(hits)]

SetAmount(f, kind, i, a) ==
    CASE kind = "income" -> [f EXCEPT !.incomes[i].amount = a]
      [] kind = "expense" -> [f EXCEPT !.expenses[i].amount = a]
      [] kind = "investment" -> [f EXCEPT !.investments[i].amount = a]

Operations == {"add", "multiply", "reduce_percent", "add_percent"}

\* The closure returning quietly when get_object finds nothing.
action_call_silent(f, act) ==
    LET r == get_object(f, act.obj_type, act.obj_name)
    IN  IF r.err # "none" THEN [fm |-> f, err |-> r.err]
        ELSE IF act.operation \notin Operations THEN [fm |-> f, err |-> "none"]
        ELSE IF r.idx = 0 THEN [fm |-> f, err |-> "none"]
        ELSE IF ~HasIsActive(r.kind) THEN [fm |-> f, err |-> "AttributeError"]
        ELSE LET old == Collection(f, r.kind)[r.idx].amount
                 new == CASE act.operation = "add" -> RAdd(old, act.value)
                          [] act.operation = "multiply" -> RMul(old, act.value)
                          [] act.operation = "reduce_percent" ->
                                 RMul(old, RSub(One, act.value))
                          [] act.operation = "add_percent" ->
                                 RMul(old, RAdd(One, act.value))
             IN  [fm |-> SetAmount(f, r.kind, r.idx, new), err |-> "none"]

\* action(fm), the closure of make_event_action: the engine after the call
\* and the error raised, "none" when it returns.  obj.amount on None, and
\* on an Event or Target, raises AttributeError.
action_call(f, act) ==
    LET r == get_object(f, act.obj_type, act.obj_name)
    IN  IF r.err # "none" THEN [fm |-> f, err |-> r.err]
        ELSE IF act.operation \notin Operations THEN [fm |-> f, err |-> "none"]
        ELSE IF r.idx = 0 \/ ~HasIsActive(r.kind)
             THEN [fm |-> f, err |-> "AttributeError"]
        ELSE LET old == Collection(f, r.kind)[r.idx].amount
                 new == CASE act.operation = "add" -> RAdd(old, act.value)
                          [] act.operation = "multiply" -> RMul(old, act.value)
                          [] act.operation = "reduce_percent" ->
                                 RMul(old, RSub(One, act.value))
                          [] act.operation = "add_percent" ->
                                 RMul(old, RAdd(One, act.value))
             IN  [fm |-> SetAmount(f, r.kind, r.idx, new), err |-> "none"]

\* Event.apply firing a pending event in any month from its trigger month on.
Event_apply_late(s, i) ==
    LET ev == s.fm.events[i]
    IN  IF s.fm.month >= ev.trigger_month /\ ~ev.executed
        THEN LET r == action_call(s.fm, ev.action)
                 c == ev.calls + 1
             IN  IF r.err # "none"
                 THEN [s EXCEPT !.fm.events[i].calls = c, !.err = r.err]
                 ELSE [s EXCEPT !.fm = [r.fm EXCEPT !.events[i].executed = TRUE,
                                                     !.events[i].calls = c]]
        ELSE s

\* Event.apply setting executed before it calls the action.
Event_apply_marked_first(s, i) ==
    LET ev == s.fm.events[i]
    IN  IF s.fm.month = ev.trigger_month /\ ~ev.executed
        THEN LET r == action_call(s.fm, ev.action)
                 c == ev.calls + 1
             IN  IF r.err # "none"
                 THEN [s EXCEPT !.fm.events[i].calls = c,
                                !.fm.events[i].executed = TRUE, !.err = r.err]
                 ELSE [s EXCEPT !.fm = [r.fm EXCEPT !.events[i].executed = TRUE,
                                                     !.events[i].calls = c]]
        ELSE s

\* Event.apply(month, finance_manager) for the event at position i, on the
\* running state s of a step.
Event_apply(s, i) ==
    LET ev == s.fm.events[i]
    IN  IF s.fm.month = ev.trigger_month /\ ~ev.executed
        THEN LET r == action_call(s.fm, ev.action)
                 c == ev.calls + 1
             IN  IF r.err # "none"
                 THEN [s EXCEPT !.fm.events[i].calls = c, !.err = r.err]
                 ELSE [s EXCEPT !.fm = [r.fm EXCEPT !.events[i].executed = TRUE,
                                                     !.events[i].calls = c]]
        ELSE s

(***************************************************************************)
(* Aggregates and targets.                                                 *)
(***************************************************************************)
\* _is_due counting the months from the steps made instead of the month.
is_due_since_start(f, obj) == obj.active /\ (Len(f.history) % obj.recurrence = 0)

is_due(f, obj) == obj.active /\ (f.month % obj.recurrence = 0)

\* total_monthly_income_equivalent counting the dividends whatever
\* reinvest_dividends says.
total_monthly_income_equivalent_with_dividends(f) ==
    RAdd(RSum([i \in 1..Len(f.investments) |->
                 IF f.investments[i].active
                 THEN RDiv(Investment_dividend(f.investments[i]), Q(12))
                 ELSE Zero]),
         RSum([i \in 1..Len(f.incomes) |->
                 IF f.incomes[i].active
                 THEN monthly_equivalent(f.incomes[i]) ELSE Zero]))

total_monthly_income_equivalent(f) ==
    LET div == IF ~f.reinvest_dividends
               THEN RSum([i \in 1..Len(f.investments) |->
                            IF f.investments[i].active
                            THEN RDiv(Investment_dividend(f.investments[i]), Q(12))
                            ELSE Zero])
               ELSE Zero
        inc == RSum([i \in 1..Len(f.incomes) |->
                       IF f.incomes[i].active
                       THEN monthly_equivalent(f.incomes[i]) ELSE Zero])
    IN  RAdd(div, inc)

total_monthly_expense_equivalent(f) ==
    RSum([i \in 1..Len(f.expenses) |->
            IF f.expenses[i].active THEN monthly_equivalent(f.expenses[i]) ELSE Zero])

total_investments(f) ==
    RSum([i \in 1..Len(f.investments) |->
            IF f.investments[i].active THEN f.investments[i].amount ELSE Zero])

\* check_function(finance_manager): the metric closures are the aggregates.
check_function(t, f) ==
    CASE t.check_function = "total_monthly_income_equivalent" ->
             total_monthly_income_equivalent(f)
      [] t.check_function = "total_monthly_expense_equivalent" ->
             total_monthly_expense_equivalent(f)
      [] t.check_function = "total_investments" -> total_investments(f)

\* The value of check_function is a numpy.float64: a sum with a
\* numpy.float64 among its terms.
check_function_float64(t, f) ==
    LET some == \E i \in 1..Len(f.investments) :
                    f.investments[i].active /\ f.investments[i].float64
    IN  CASE t.check_function = "total_monthly_income_equivalent" ->
                 ~f.reinvest_dividends /\ some
          [] t.check_function = "total_monthly_expense_equivalent" -> FALSE
          [] t.check_function = "total_investments" -> some

\* float("-inf")
NegInf == <<-1, 0>>

\* current_value / 0: a Python number raises ZeroDivisionError; a
\* numpy.float64 warns and gives inf, nan or -inf, and min(100, x * 100) is
\* then 100, 100 or -inf.
ZeroGoalStatus(current_value, float64) ==
    IF float64
    THEN [err |-> "none", current |-> current_value,
          progress |-> IF RLt(current_value, Zero) THEN NegInf ELSE Q(100)]
    ELSE [err |-> "ZeroDivisionError", current |-> current_value, progress |-> Zero]

\* status() without the cap at 100.
Target_status_uncapped(t, f) ==
    LET current_value == check_function(t, f)
    IN  IF t.goal_value = Zero
        THEN ZeroGoalStatus(current_value, check_function_float64(t, f))
        ELSE [err |-> "none", current |-> current_value,
              progress |-> RMul(RDiv(current_value, t.goal_value), Q(100))]

\* Target.status: (current_value, progress); the division raises on a zero goal.
Target_status(t, f) ==
    LET current_value == check_function(t, f)
    IN  IF t.goal_value = Zero
        THEN ZeroGoalStatus(current_value, check_function_float64(t, f))
        ELSE [err |-> "none", current |-> current_value,
              progress |-> RMin(Q(100), RMul(RDiv(current_value, t.goal_value), Q(100)))]

Target_is_reached(t, f) == RLe(t.goal_value, Target_status(t, f).current)

\* _targets_status: the list of (name, current, progress, reached).
targets_status(f) ==
    LET n == Len(f.targets)
        bad == {k \in 1..n : Target_status(f.targets[k], f).err # "none"}
    IN  IF bad # {}
        THEN [err |-> Target_status(f.targets[MinOf(bad)], f).err, statuses |-> <<>>]
        ELSE [err |-> "none",
              statuses |-> [k \in 1..n |->
                  [name |-> f.targets[k].name,
                   current |-> Target_status(f.targets[k], f).current,
                   progress |-> Target_status(f.targets[k], f).progress,
                   reached |-> Target_is_reached(f.targets[k], f)]]]

(***************************************************************************)
(* step_month, stage by stage.  The running state s of a call holds the    *)
(* engine as mutated so far, the generator, the error raised ("none" while *)
(* running), the locals of step_month, and the positions of the flows      *)
(* whose receive()/charge() was called.                                    *)
(***************************************************************************)
StartStep(f, state) ==
    [fm |-> f, rng |-> state, err |-> "none",
     income_this_month |-> Zero, expense_this_month |-> Zero,
     dividends_received |-> Zero, invested_from_sweep |-> Zero,
     received |-> {}, charged |-> {}]

\* 1) Events
step_events(s) ==
    LET n == Len(s.fm.events)
        F[i \in 0..n] ==
            IF i = 0 THEN s
            ELSE IF F[i - 1].err # "none" THEN F[i - 1]
            ELSE Event_apply(F[i - 1], i)
    IN  F[n]

\* 2) Incomes due this month
step_incomes(s) ==
    LET n == Len(s.fm.incomes)
        F[i \in 0..n] ==
            IF i = 0 THEN s
            ELSE LET p == F[i - 1]
                     inc == p.fm.incomes[i]
                 IN  IF is_due(p.fm, inc)
                     THEN [p EXCEPT
                             !.income_this_month = RAdd(@, Income_receive(inc)),
                             !.fm.cash = RAdd(@, Income_receive(inc)),
                             !.received = @ \cup {i}]
                     ELSE p
    IN  F[n]

\* 2) Expenses due this month
step_expenses(s) ==
    LET n == Len(s.fm.expenses)
        F[i \in 0..n] ==
            IF i = 0 THEN s
            ELSE LET p == F[i - 1]
                     exp == p.fm.expenses[i]
                 IN  IF is_due(p.fm, exp)
                     THEN [p EXCEPT
                             !.expense_this_month = RAdd(@, Expense_charge(exp)),
                             !.fm.cash = RSub(@, Expense_charge(exp)),
                             !.charged = @ \cup {i}]
                     ELSE p
    IN  F[n]

\* 3) Dividends (monthly equivalent)
step_dividends(s) ==
    LET n == Len(s.fm.investments)
        F[i \in 0..n] ==
            IF i = 0 THEN s
            ELSE LET p == F[i - 1]
                     inv == p.fm.investments[i]
                     monthly_div == RDiv(Investment_dividend(inv), Q(12))
                 IN  IF inv.active
                     THEN IF p.fm.reinvest_dividends
                          THEN [p EXCEPT
                                  !.dividends_received = RAdd(@, monthly_div),
                                  !.fm.investments[i] =
                                      Investment_add_funds(inv, monthly_div)]
                          ELSE [p EXCEPT
                                  !.dividends_received = RAdd(@, monthly_div),
                                  !.fm.cash = RAdd(@, monthly_div),
                                  !.fm.cash_float64 = @ \/ inv.float64]
                     ELSE p
    IN  F[n]

\* 4) Investment revaluation
step_revaluation(s) ==
    LET n == Len(s.fm.investments)
        F[i \in 0..n] ==
            IF i = 0 THEN s
            ELSE LET p == F[i - 1]
                     r == Investment_revaluation(p.fm.investments[i], p.rng)
                 IN  [p EXCEPT !.fm.investments[i] = r.inv, !.rng = r.rng]
    IN  F[n]

\* The year-end test counting the calls made instead of the month.
IsYearEnd_by_calls(f) == (Len(f.history) + 1) % 12 = 0

IsYearEnd(f) == (f.month + 1) % 12 = 0

\* 5) Yearly expected growth at year-end boundaries
step_yearly(s) ==
    IF IsYearEnd(s.fm)
    THEN [s EXCEPT !.fm.investments =
             [i \in 1..Len(@) |-> Investment_yearly_increase(@[i])]]
    ELSE s

\* The sweep's lookup without the is_active test.
SweepTarget_unguarded(f, name) ==
    LET hits == {i \in 1..Len(f.investments) : f.investments[i].name = name}
    IN  IF hits = {} THEN 0 ELSE MinOf(hits)

\* next((inv for inv in investments if inv.name == name and inv.is_active), None)
SweepTarget(f, name) ==
    LET hits == {i \in 1..Len(f.investments) :
                    f.investments[i].name = name /\ f.investments[i].active}
    IN  IF hits = {} THEN 0 ELSE MinOf(hits)

SweepAmount(f) == RMax(Zero, RMul(f.cash, f.invest_sweep_rate))

\* The weights normalised by the largest of them.
TotalAlloc_largest(f) ==
    LET w == {f.allocation[k].weight : k \in 1..Len(f.allocation)}
    IN  CHOOSE x \in w : \A y \in w : RLe(y, x)

TotalAlloc(f) == RSum([k \in 1..Len(f.allocation) |-> f.allocation[k].weight])

\* The sweep testing the weights before the amount to sweep.
step_sweep_weights_first(s) ==
    IF RLt(Zero, s.fm.invest_sweep_rate) /\ s.fm.allocation # <<>>
    THEN LET sweep_amount == SweepAmount(s.fm)
             total_alloc == TotalAlloc(s.fm)
             n == Len(s.fm.allocation)
             F[k \in 0..n] ==
                 IF k = 0 THEN s
                 ELSE LET p == F[k - 1]
                          target == SweepTarget(p.fm, p.fm.allocation[k].name)
                          add_amt == RMul(sweep_amount,
                                          RDiv(p.fm.allocation[k].weight, total_alloc))
                      IN  IF target = 0 THEN p
                          ELSE [p EXCEPT
                                  !.fm.investments[target] =
                                      [Investment_add_funds(@, add_amt) EXCEPT
                                          !.float64 = @ \/ p.fm.cash_float64],
                                  !.invested_from_sweep = RAdd(@, add_amt)]
         IN  IF RLe(total_alloc, Zero)
             THEN [s EXCEPT !.err = "ValueError"]
             ELSE IF RLt(Zero, sweep_amount)
                  THEN [F[n] EXCEPT !.fm.cash = RSub(@, F[n].invested_from_sweep)]
                  ELSE s
    ELSE s

\* 6) Auto-invest a sweep of available cash
step_sweep(s) ==
    IF RLt(Zero, s.fm.invest_sweep_rate) /\ s.fm.allocation # <<>>
    THEN LET sweep_amount == SweepAmount(s.fm)
             total_alloc == TotalAlloc(s.fm)
             n == Len(s.fm.allocation)
             F[k \in 0..n] ==
                 IF k = 0 THEN s
                 ELSE LET p == F[k - 1]
                          target == SweepTarget(p.fm, p.fm.allocation[k].name)
                          add_amt == RMul(sweep_amount,
                                          RDiv(p.fm.allocation[k].weight, total_alloc))
                      IN  IF target = 0 THEN p
                          ELSE [p EXCEPT
                                  !.fm.investments[target] =
                                      [Investment_add_funds(@, add_amt) EXCEPT
                                          !.float64 = @ \/ p.fm.cash_float64],
                                  !.invested_from_sweep = RAdd(@, add_amt)]
         IN  IF RLt(Zero, sweep_amount)
             THEN IF RLe(total_alloc, Zero)
                  THEN [s EXCEPT !.err = "ValueError"]
                  ELSE [F[n] EXCEPT !.fm.cash = RSub(@, F[n].invested_from_sweep)]
             ELSE s
    ELSE s

\* The increments applied to every growing flow, due or not.
apply_increments_every_month(s) ==
    [s EXCEPT
       !.fm.incomes = [i \in 1..Len(@) |->
           IF @[i].inc THEN apply_increment(@[i]) ELSE @[i]],
       !.fm.expenses = [i \in 1..Len(@) |->
           IF @[i].inc THEN apply_increment(@[i]) ELSE @[i]]]

\* 7) _apply_increments_if_cycle_end
apply_increments_if_cycle_end(s) ==
    [s EXCEPT
       !.fm.incomes = [i \in 1..Len(@) |->
           IF is_due(s.fm, @[i]) /\ @[i].inc THEN apply_increment(@[i]) ELSE @[i]],
       !.fm.expenses = [i \in 1..Len(@) |->
           IF is_due(s.fm, @[i]) /\ @[i].inc THEN apply_increment(@[i]) ELSE @[i]]]

\* The snapshot taken with the month already advanced.
Snapshot_next_month(s, statuses) ==
    [month |-> s.fm.month + 1,
     cash |-> Round2(s.fm.cash),
     income |-> Round2(s.income_this_month),
     expense |-> Round2(s.expense_this_month),
     dividends |-> Round2(s.dividends_received),
     invested |-> Round2(s.invested_from_sweep),
     investments_total |-> Round2(total_investments(s.fm)),
     targets |-> statuses]

Snapshot(s, statuses) ==
    [month |-> s.fm.month,
     cash |-> Round2(s.fm.cash),
     income |-> Round2(s.income_this_month),
     expense |-> Round2(s.expense_this_month),
     dividends |-> Round2(s.dividends_received),
     invested |-> Round2(s.invested_from_sweep),
     investments_total |-> Round2(total_investments(s.fm)),
     targets |-> statuses]

\* 8) Collect snapshot & advance time
step_snapshot(s) ==
    LET ts == targets_status(s.fm)
    IN  IF ts.err # "none" THEN [s EXCEPT !.err = ts.err]
        ELSE [s EXCEPT !.fm.history = Append(@, Snapshot(s, ts.statuses)),
                       !.fm.month = @ + 1]

\* The one element of a singleton set.
Only(S) == CHOOSE x \in S : TRUE

\* The blocks of step_month with the events run after the settlement.
Stage_events_after_settlement(k, s) ==
    CASE k = 1 -> step_incomes(s)
      [] k = 2 -> step_expenses(s)
      [] k = 3 -> step_events(s)
      [] k = 4 -> step_dividends(s)
      [] k = 5 -> step_revaluation(s)
      [] k = 6 -> step_yearly(s)
      [] k = 7 -> step_sweep(s)
      [] k = 8 -> apply_increments_if_cycle_end(s)
      [] k = 9 -> step_snapshot(s)

\* The k-th block of step_month's body, applied to the running state s.
Stage(k, s) ==
    CASE k = 1 -> step_events(s)
      [] k = 2 -> step_incomes(s)
      [] k = 3 -> step_expenses(s)
      [] k = 4 -> step_dividends(s)
      [] k = 5 -> step_revaluation(s)
      [] k = 6 -> step_yearly(s)
      [] k = 7 -> step_sweep(s)
      [] k = 8 -> apply_increments_if_cycle_end(s)
      [] k = 9 -> step_snapshot(s)

SweepStage == 7
LastStage == 9

\* Blocks k..last in order; a block that raises ends the call with the
\* mutations made so far.
RECURSIVE Stages(_, _, _)
Stages(s, k, last) ==
    IF k > last \/ s.err # "none" THEN s
    ELSE Only({Stages(t, k + 1, last) : t \in {Stage(k, s)}})

\* The state of a step before its sweep stage.
BeforeSweep(f, state) == Stages(StartStep(f, state), 1, SweepStage - 1)

\* step_month on engine f with the generator in `state`: the final running
\* state.
step_month(f, state) == Stages(StartStep(f, state), 1, LastStage)

\* run(months): the running state after the last step made, with the
\* snapshots collected in `results`.
RECURSIVE run_loop(_, _)

\* The loop of run leaving as soon as a snapshot shows a target reached.
run_loop_until_reached(p, left) ==
    IF \/ left = 0
       \/ p.s.err # "none"
       \/ /\ p.results # <<>>
          /\ \E k \in DOMAIN p.results[Len(p.results)].targets :
                 p.results[Len(p.results)].targets[k].reached
    THEN p
    ELSE Only({run_loop([s |-> q,
                         results |-> IF q.err = "none"
                                     THEN Append(p.results,
                                                 q.fm.history[Len(q.fm.history)])
                                     ELSE p.results], left - 1) :
               q \in {step_month(p.s.fm, p.s.rng)}})

run_loop(p, left) ==
    IF left = 0 \/ p.s.err # "none" THEN p
    ELSE Only({run_loop([s |-> q,
                         results |-> IF q.err = "none"
                                     THEN Append(p.results,
                                                 q.fm.history[Len(q.fm.history)])
                                     ELSE p.results], left - 1) :
               q \in {step_month(p.s.fm, p.s.rng)}})

run(f, state, months) ==
    run_loop([s |-> StartStep(f, state), results |-> <<>>], months)

(***************************************************************************)
(* The calls a client makes on one engine.  Each call is a function of the *)
(* engine (and of the generator): the engine after it, the error raised    *)
(* ("none" when it returned) and the value returned.  failed counts the    *)
(* calls of step_month and run that raised: a step that raises leaves the  *)
(* month where it was and may be called again without end, so the          *)
(* exploration stops at MaxFailed of them.  removed counts the events and  *)
(* targets taken out by delete_object: the client adds MaxEntities         *)
(* entities at most, those removed included.                               *)
(***************************************************************************)
NumEntities(f) ==
    Len(f.incomes) + Len(f.expenses) + Len(f.investments)
        + Len(f.events) + Len(f.targets)

\* _validate_recurrence refusing the negative recurrences only.
validate_recurrence_negative(recurrence) ==
    IF recurrence < 0 THEN "ValueError" ELSE "none"

\* _validate_recurrence: the error raised, "none" when valid.
validate_recurrence(recurrence) ==
    IF recurrence < 1 THEN "ValueError" ELSE "none"

add_income_result(f, income) ==
    IF validate_recurrence(income.recurrence) # "none"
    THEN [fm |-> f, err |-> validate_recurrence(income.recurrence)]
    ELSE [fm |-> [f EXCEPT !.incomes = Append(@, income)], err |-> "none"]

add_expense_result(f, expense) ==
    IF validate_recurrence(expense.recurrence) # "none"
    THEN [fm |-> f, err |-> validate_recurrence(expense.recurrence)]
    ELSE [fm |-> [f EXCEPT !.expenses = Append(@, expense)], err |-> "none"]

add_income(income) ==
    /\ NumEntities(fm) + removed < MaxEntities
    /\ fm' = add_income_result(fm, income).fm
    /\ UNCHANGED <<fm2, rng, failed, removed>>

add_expense(expense) ==
    /\ NumEntities(fm) + removed < MaxEntities
    /\ fm' = add_expense_result(fm, expense).fm
    /\ UNCHANGED <<fm2, rng, failed, removed>>

add_investment(investment) ==
    /\ NumEntities(fm) + removed < MaxEntities
    /\ fm' = [fm EXCEPT !.investments = Append(@, investment)]
    /\ UNCHANGED <<fm2, rng, failed, removed>>

add_event(event) ==
    /\ NumEntities(fm) + removed < MaxEntities
    /\ fm' = [fm EXCEPT !.events = Append(@, event)]
    /\ UNCHANGED <<fm2, rng, failed, removed>>

add_target(target) ==
    /\ NumEntities(fm) + removed < MaxEntities
    /\ fm' = [fm EXCEPT !.targets = Append(@, target)]
    /\ UNCHANGED <<fm2, rng, failed, removed>>

\* The client calls delete() on an entity it holds: the i-th income,
\* expense or investment of the engine.
delete_entity(kind, i) ==
    /\ i \in 1..Len(Collection(fm, kind))
    /\ Collection(fm, kind)[i].active
    /\ fm' = CASE kind = "income" -> [fm EXCEPT !.incomes[i] = Entity_delete(@)]
               [] kind = "expense" -> [fm EXCEPT !.expenses[i] = Entity_delete(@)]
               [] kind = "investment" -> [fm EXCEPT !.investments[i] = Entity_delete(@)]
    /\ UNCHANGED <<fm2, rng, failed, removed>>

RemoveAt(s, i) == SubSeq(s, 1, i - 1) \o SubSeq(s, i + 1, Len(s))

\* delete_object on engine f.  The first entry with the name is taken,
\* active or not; obj.is_active = False raises AttributeError, is_active
\* being a property without a setter.
delete_object_result(f, obj_type, obj_name) ==
    LET t == Lower(obj_type)
    IN  IF t \notin EntityTypes THEN [fm |-> f, err |-> "ValueError", found |-> FALSE]
        ELSE LET coll == Collection(f, t)
                 hits == {i \in 1..Len(coll) : coll[i].name = obj_name}
             IN  IF hits = {} THEN [fm |-> f, err |-> "none", found |-> FALSE]
                 ELSE IF HasIsActive(t)
                      THEN [fm |-> f, err |-> "AttributeError", found |-> FALSE]
                 ELSE [fm |-> IF t = "event"
                              THEN [f EXCEPT !.events = RemoveAt(@, MinOf(hits))]
                              ELSE [f EXCEPT !.targets = RemoveAt(@, MinOf(hits))],
                       err |-> "none", found |-> TRUE]

delete_object(obj_type, obj_name) ==
    /\ fm' = delete_object_result(fm, obj_type, obj_name).fm
    /\ removed' = removed + NumEntities(fm) - NumEntities(fm')
    /\ UNCHANGED <<fm2, rng, failed>>

StepMonth ==
    LET s == step_month(fm, rng)
    IN  /\ Len(fm.history) < MaxSteps
        /\ s.err = "none" \/ failed < MaxFailed
        /\ failed' = IF s.err = "none" THEN failed ELSE failed + 1
        /\ fm' = s.fm
        /\ rng' = s.rng
        /\ UNCHANGED <<fm2, removed>>

Run(months) ==
    LET r == run(fm, rng, months)
    IN  /\ Len(fm.history) + months <= MaxSteps
        /\ r.s.err = "none" \/ failed < MaxFailed
        /\ failed' = IF r.s.err = "none" THEN failed ELSE failed + 1
        /\ fm' = r.s.fm
        /\ rng' = r.s.rng
        /\ UNCHANGED <<fm2, removed>>

\* (type, name) arguments of get_object and delete_object.
LookupInputs ==
    { <<"income", "Salary">>, <<"Expense", "Rent">>, <<"investment", "B">>,
      <<"event", "Raise">>, <<"target", "InvestGoal">>, <<"loan", "A">> }

NoEngine == <<>>

Init ==
    /\ \E c \in Configs, old \in UnseededStates :
          /\ fm = FinanceManager(c)
          /\ rng = SeedOnInit(c, old)
    /\ fm2 = NoEngine
    /\ failed = 0
    /\ removed = 0

Next ==
    \/ \E x \in IncomeInputs : add_income(x)
    \/ \E x \in ExpenseInputs : add_expense(x)
    \/ \E x \in InvestmentInputs : add_investment(x)
    \/ \E x \in EventInputs : add_event(x)
    \/ \E x \in TargetInputs : add_target(x)
    \/ \E k \in {"income", "expense", "investment"}, i \in 1..MaxEntities :
          delete_entity(k, i)
    \/ \E d \in LookupInputs : delete_object(d[1], d[2])
    \/ StepMonth
    \/ \E n \in 0..MaxRun : Run(n)

Spec == Init /\ [][Next]_vars

(***************************************************************************)
(* The same engine with the caller keeping to one part of the interface:   *)
(* flows and events; investments and targets; flows and investments.       *)
(***************************************************************************)
InitWith(configs) ==
    /\ \E c \in configs, old \in UnseededStates :
          /\ fm = FinanceManager(c)
          /\ rng = SeedOnInit(c, old)
    /\ fm2 = NoEngine
    /\ failed = 0
    /\ removed = 0

InitFlows == InitWith({c \in Configs : ~c.reinvest_dividends})

NextFlows ==
    \/ \E x \in IncomeInputs : add_income(x)
    \/ \E x \in ExpenseInputs : add_expense(x)
    \/ \E x \in EventInputs : add_event(x)
    \/ \E k \in {"income", "expense"}, i \in 1..MaxEntities : delete_entity(k, i)
    \/ \E d \in LookupInputs : delete_object(d[1], d[2])
    \/ StepMonth

SpecFlows == InitFlows /\ [][NextFlows]_vars

InitInvest == InitWith({c \in Configs : c.allocation # <<>>})

NextInvest ==
    \/ \E x \in InvestmentInputs : add_investment(x)
    \/ \E x \in TargetInputs : add_target(x)
    \/ \E i \in 1..MaxEntities : delete_entity("investment", i)
    \/ \E d \in LookupInputs : delete_object(d[1], d[2])
    \/ StepMonth
    \/ \E n \in 0..MaxRun : Run(n)

SpecInvest == InitInvest /\ [][NextInvest]_vars

InitBalance == InitWith({c \in Configs : c.allocation # AllocBad})

NextBalance ==
    \/ \E x \in IncomeInputs : add_income(x)
    \/ \E x \in ExpenseInputs : add_expense(x)
    \/ \E x \in InvestmentInputs : add_investment(x)
    \/ \E k \in {"income", "expense", "investment"}, i \in 1..MaxEntities :
          delete_entity(k, i)
    \/ StepMonth

SpecBalance == InitBalance /\ [][NextBalance]_vars

\* Flows and up to MaxEvents events due in one month, added after the flows
\* or before them.
add_event_more(event) ==
    /\ Len(fm.events) < MaxEvents
    /\ fm' = [fm EXCEPT !.events = Append(@, event)]
    /\ UNCHANGED <<fm2, rng, failed, removed>>

InitEvents == InitWith({c \in Configs : c.allocation = <<>>})

NextEvents ==
    \/ \E x \in {y \in IncomeInputs : y.recurrence = 1} : add_income(x)
    \/ \E x \in ExpenseInputs : add_expense(x)
    \/ \E x \in SameMonthEventInputs : add_event_more(x)
    \/ StepMonth

SpecEvents == InitEvents /\ [][NextEvents]_vars

\* Growing flows, investments and events on them, with entities deactivated,
\* under the configurations that sweep.
InitInactive == InitWith({c \in Configs : c.allocation = AllocAB})

NextInactive ==
    \/ \E x \in GrowingIncomeInputs : add_income(x)
    \/ \E x \in {y \in ExpenseInputs : y.inc} : add_expense(x)
    \/ \E x \in InvestmentInputs : add_investment(x)
    \/ \E x \in EntityEventInputs : add_event(x)
    \/ \E k \in {"income", "expense", "investment"}, i \in 1..MaxEntities :
          delete_entity(k, i)
    \/ StepMonth

SpecInactive == InitInactive /\ [][NextInactive]_vars

\* Flows and investments under every configuration of the sweep.
InitSweep == InitWith(Configs)

NextSweep ==
    \/ \E x \in IncomeInputs : add_income(x)
    \/ \E x \in ExpenseInputs : add_expense(x)
    \/ \E x \in InvestmentInputs : add_investment(x)
    \/ StepMonth

SpecSweep == InitSweep /\ [][NextSweep]_vars

\* Investments and targets, a target with goal 0 among them.
InitGoal == InitWith({c \in Configs : c.allocation = AllocAB})

NextGoal ==
    \/ \E x \in InvestmentInputs : add_investment(x)
    \/ \E x \in TargetInputs \cup ZeroGoalInputs : add_target(x)
    \/ \E i \in 1..MaxEntities : delete_entity("investment", i)
    \/ StepMonth

SpecGoal == InitGoal /\ [][NextGoal]_vars

(***************************************************************************)
(* Two engines in one process, fm and fm2, each built with the same seeded *)
(* configuration and given its investments before it is stepped.  Both     *)
(* constructors seed, and both engines draw from, the one generator of the *)
(* process.                                                                *)
(***************************************************************************)
TwinConfig == CHOOSE c \in Configs : c.random_seed = 42

TwinNew(e) ==
    /\ IF e = 1 THEN fm = NoEngine ELSE fm2 = NoEngine
    /\ IF e = 1
       THEN fm' = FinanceManager(TwinConfig) /\ UNCHANGED fm2
       ELSE fm2' = FinanceManager(TwinConfig) /\ UNCHANGED fm
    /\ rng' = SeedOnInit(TwinConfig, rng)
    /\ UNCHANGED <<failed, removed>>

TwinAddInvestment(e, investment) ==
    LET f == IF e = 1 THEN fm ELSE fm2
        g == [f EXCEPT !.investments = Append(@, investment)]
    IN  /\ f # NoEngine
        /\ f.history = <<>>
        /\ NumEntities(f) < MaxEntities
        /\ IF e = 1 THEN fm' = g /\ UNCHANGED fm2 ELSE fm2' = g /\ UNCHANGED fm
        /\ UNCHANGED <<rng, failed, removed>>

TwinStepMonth(e) ==
    LET f == IF e = 1 THEN fm ELSE fm2
        s == step_month(f, rng)
    IN  /\ f # NoEngine
        /\ Len(f.history) < MaxSteps
        /\ s.err = "none"
        /\ IF e = 1 THEN fm' = s.fm /\ UNCHANGED fm2 ELSE fm2' = s.fm /\ UNCHANGED fm
        /\ rng' = s.rng
        /\ UNCHANGED <<failed, removed>>

TwinInit ==
    /\ fm = NoEngine
    /\ fm2 = NoEngine
    /\ rng \in UnseededStates
    /\ failed = 0
    /\ removed = 0

TwinNext ==
    \/ \E e \in {1, 2} : TwinNew(e)
    \/ \E e \in {1, 2}, x \in InvestmentInputs : TwinAddInvestment(e, x)
    \/ \E e \in {1, 2} : TwinStepMonth(e)

SpecTwin == TwinInit /\ [][TwinNext]_vars

(***************************************************************************)
(* Properties.  Those about one call of step_month or run are stated on    *)
(* the result of the call in every reachable state of the engine.          *)
(***************************************************************************)
Last(seq) == seq[Len(seq)]

\* The engine is within the number of steps explored.
CanStep == Len(fm.history) < MaxSteps

\* The engine as the settlement of a step on f reads it: after the events.
AfterEvents(f, state) == Stages(StartStep(f, state), 1, 1).fm

\* The flows of a collection that are active and whose recurrence divides
\* the month, and the sum of their amounts.
DueSet(month, flows) ==
    {i \in 1..Len(flows) : flows[i].active /\ month % flows[i].recurrence = 0}

DueSum(month, flows) ==
    RSum([i \in 1..Len(flows) |->
            IF i \in DueSet(month, flows) THEN flows[i].amount ELSE Zero])

\* The monthly dividends of the active investments.
DividendSum(investments) ==
    RSum([i \in 1..Len(investments) |->
            IF investments[i].active
            THEN RDiv(RMul(investments[i].amount, investments[i].dividend_per), Q(12))
            ELSE Zero])

\* cash after a step that returned s, by the balance equation.
BalanceCash(f, g, s) ==
    RSub(RAdd(RAdd(f.cash, RSub(DueSum(g.month, g.incomes),
                                DueSum(g.month, g.expenses))),
              IF f.reinvest_dividends THEN Zero ELSE DividendSum(g.investments)),
         s.invested_from_sweep)

\* C1 (as amended): a step that returns changes cash by the due incomes
\* minus the due expenses, plus the dividends when they are not reinvested,
\* minus the amount swept; the snapshot's income and expense are those sums
\* rounded to cents.
C1_StepBalance ==
    LET s == step_month(fm, rng)
        g == AfterEvents(fm, rng)
    IN  CanStep /\ s.err = "none" =>
          /\ s.fm.cash = BalanceCash(fm, g, s)
          /\ Last(s.fm.history).income = Round2(DueSum(g.month, g.incomes))
          /\ Last(s.fm.history).expense = Round2(DueSum(g.month, g.expenses))

\* C1 as stated: the snapshot's income and expense equal the sums themselves.
C1_ExactTotals ==
    LET s == step_month(fm, rng)
        g == AfterEvents(fm, rng)
    IN  CanStep /\ s.err = "none" =>
          /\ s.fm.cash = BalanceCash(fm, g, s)
          /\ Last(s.fm.history).income = DueSum(g.month, g.incomes)
          /\ Last(s.fm.history).expense = DueSum(g.month, g.expenses)

\* The example of C1 after its step: 15000 + 20000 - 6000.
C1_Witness ==
    /\ Len(fm.history) = 1
    /\ fm.investments = <<>>
    /\ Len(fm.incomes) = 1 /\ fm.incomes[1].recurrence = 1
    /\ Len(fm.expenses) = 1 /\ fm.expenses[1].recurrence = 1
    /\ fm.history[1].income = Q(20000)
    /\ fm.history[1].expense = Q(6000)
    /\ fm.cash = Q(29000)

\* C2: run(n) that returns has made n steps: n snapshots with the months
\* from the month on entry upwards, appended to the history, and the month
\* advanced by n, whatever the snapshots show.
C2_RunMakesNSteps ==
    \A n \in 0..MaxRun :
        LET r == run(fm, rng, n)
        IN  Len(fm.history) + n <= MaxSteps /\ r.s.err = "none" =>
              /\ Len(r.results) = n
              /\ \A k \in 1..n : r.results[k].month = fm.month + k - 1
              /\ r.s.fm.month = fm.month + n
              /\ r.s.fm.history = fm.history \o r.results

\* Two snapshots of consecutive months, the first with a target reached.
C2_Witness ==
    /\ Len(fm.history) = 2
    /\ \E k \in DOMAIN fm.history[1].targets : fm.history[1].targets[k].reached
    /\ fm.history[2].month = fm.history[1].month + 1
    /\ fm.month = fm.history[1].month + 2

\* A transition that keeps the events in their places.
EventsKept ==
    /\ Len(fm'.events) = Len(fm.events)
    /\ \A i \in 1..Len(fm.events) : fm'.events[i].name = fm.events[i].name

\* The months in which a transition ran the events: a call that raised
\* stopped in the month it left the engine in.
MonthsStepped ==
    IF failed' > failed THEN fm.month..fm'.month ELSE fm.month..(fm'.month - 1)

\* What every transition does to the event at position i.
EventStep(i) ==
    LET ev == fm.events[i]
        ev2 == fm'.events[i]
    IN  /\ ev2.calls \in {ev.calls, ev.calls + 1}
        /\ ev2.calls > ev.calls =>
              ev.trigger_month \in MonthsStepped /\ ~ev.executed
        /\ ev.executed => ev2.executed /\ ev2.calls = ev.calls
        /\ ev2.executed /\ ~ev.executed => ev2.calls = ev.calls + 1
        /\ ev.trigger_month < fm.month => ev2 = ev

Settled == Stages(StartStep(fm, rng), 1, 3)

\* C4: a step settles exactly the active flows whose recurrence divides the
\* engine's month.
C4_SettledWhenRecurrenceDivides ==
    CanStep /\ Settled.err = "none" =>
        /\ Settled.received = DueSet(fm.month, fm.incomes)
        /\ Settled.charged = DueSet(fm.month, fm.expenses)

\* An income of recurrence 2 in an engine started at month 11: nothing
\* received in month 11, the amount received in month 12.
C4_Witness ==
    /\ Len(fm.history) = 2
    /\ Len(fm.incomes) = 1 /\ fm.incomes[1].recurrence = 2 /\ fm.incomes[1].active
    /\ fm.history[1].month = 11 /\ fm.history[1].income = Zero
    /\ fm.history[2].month = 12 /\ fm.history[2].income = Round2(<<1605, 16>>)

FlowKinds == {"income", "expense", "investment"}

\* The engine with the amount of every inactive entity set to zero.
Erased(f) ==
    [f EXCEPT
       !.incomes = [i \in 1..Len(@) |->
           IF @[i].active THEN @[i] ELSE [@[i] EXCEPT !.amount = Zero]],
       !.expenses = [i \in 1..Len(@) |->
           IF @[i].active THEN @[i] ELSE [@[i] EXCEPT !.amount = Zero]],
       !.investments = [i \in 1..Len(@) |->
           IF @[i].active THEN @[i] ELSE [@[i] EXCEPT !.amount = Zero]]]

SomeInactive(f) ==
    \E k \in FlowKinds : \E i \in 1..Len(Collection(f, k)) : ~Collection(f, k)[i].active

\* The inactive entities of engine f yield 0 and are not in its aggregates.
InactiveYieldNothing(f) ==
    /\ \A i \in 1..Len(f.incomes) : ~f.incomes[i].active =>
          Income_receive(f.incomes[i]) = Zero /\ monthly_equivalent(f.incomes[i]) = Zero
    /\ \A i \in 1..Len(f.expenses) : ~f.expenses[i].active =>
          Expense_charge(f.expenses[i]) = Zero /\ monthly_equivalent(f.expenses[i]) = Zero
    /\ \A i \in 1..Len(f.investments) : ~f.investments[i].active =>
          Investment_dividend(f.investments[i]) = Zero
    /\ total_monthly_income_equivalent(f) = total_monthly_income_equivalent(Erased(f))
    /\ total_monthly_expense_equivalent(f) = total_monthly_expense_equivalent(Erased(f))
    /\ total_investments(f) = total_investments(Erased(f))

\* A step_month that returned made the transition: its cash and snapshot
\* are those of the same step on the engine without the inactive amounts.
StepIgnoresInactive ==
    Len(fm'.history) = Len(fm.history) + 1 /\ SomeInactive(fm) =>
        LET s == step_month(Erased(fm), rng)
        IN  /\ s.err = "none"
            /\ fm'.cash = s.fm.cash
            /\ Last(fm'.history) = Last(s.fm.history)

ActionInputs ==
    {make_event_action(d[1], d[2], op, <<1, 20>>) :
        d \in {x \in LookupInputs : Lower(x[1]) \in EntityTypes}, op \in Operations}

\* No entity of the type and name is in the engine, or none that is active.
NoActiveEntity(f, obj_type, obj_name) ==
    LET coll == Collection(f, Lower(obj_type))
    IN  \A i \in 1..Len(coll) :
            coll[i].name = obj_name => HasIsActive(Lower(obj_type)) /\ ~coll[i].active

\* C6: an action built for one of the four operations raises when the
\* engine has no active entity of its type and name (the error is the
\* AttributeError of None.amount), and leaves the engine as it was.
C6_MissingEntityRaises ==
    \A act \in ActionInputs :
        NoActiveEntity(fm, act.obj_type, act.obj_name) =>
            /\ action_call(fm, act).err = "AttributeError"
            /\ action_call(fm, act).fm = fm

\* An event whose action raised in a step, its income being inactive.
C6_Witness ==
    /\ failed = 1
    /\ \E i \in 1..Len(fm.events) :
          /\ fm.events[i].calls = 1 /\ ~fm.events[i].executed
          /\ fm.events[i].action.operation \in Operations
          /\ \E j \in 1..Len(fm.incomes) :
                fm.incomes[j].name = fm.events[i].action.obj_name /\ ~fm.incomes[j].active

\* The allocation entries whose name is that of investment j, the first
\* active investment of the name.
AllocatedTo(f, j) ==
    {k \in 1..Len(f.allocation) :
        /\ f.investments[j].active
        /\ f.investments[j].name = f.allocation[k].name
        /\ \A i \in 1..(j - 1) :
              ~(f.investments[i].active /\ f.investments[i].name = f.allocation[k].name)}

\* The share of sweep_amount deposited in investment j.
Deposit(f, j, sweep_amount) ==
    RSum([k \in 1..Len(f.allocation) |->
            IF k \in AllocatedTo(f, j)
            THEN RDiv(RMul(sweep_amount, f.allocation[k].weight),
                      RSum([m \in 1..Len(f.allocation) |-> f.allocation[m].weight]))
            ELSE Zero])

\* C7: the sweep adds sweep_amount * weight / (sum of the weights) to the
\* active investment of each allocation name, skips the names without one,
\* and takes from cash the total it deposited.
C7_SweepDistribution ==
    LET b == BeforeSweep(fm, rng)
        a == step_sweep(b)
        amt == RMul(b.fm.cash, b.fm.invest_sweep_rate)
        n == Len(b.fm.investments)
    IN  /\ CanStep /\ b.err = "none"
        /\ RLt(Zero, fm.invest_sweep_rate) /\ fm.allocation # <<>>
        /\ RLt(Zero, amt) /\ RLt(Zero, TotalAlloc(fm))
        =>  /\ a.err = "none"
            /\ \A j \in 1..n :
                  a.fm.investments[j].amount =
                      RAdd(b.fm.investments[j].amount, Deposit(b.fm, j, amt))
            /\ a.fm.cash = RSub(b.fm.cash, RSum([j \in 1..n |-> Deposit(b.fm, j, amt)]))
            /\ a.invested_from_sweep = RSum([j \in 1..n |-> Deposit(b.fm, j, amt)])

\* Allocation {A: 0.6, B: 0.4} and cash 2000 swept at rate 0.5 with B
\* inactive: 600 went to A and cash dropped by 600.
C7_Witness ==
    /\ Len(fm.history) = 1
    /\ Len(fm.investments) = 2
    /\ fm.investments[1].name = "A" /\ fm.investments[1].active
    /\ fm.investments[2].name = "B" /\ ~fm.investments[2].active
    /\ fm.investments[2].amount = fm.investments[2].strt_amount
    /\ fm.history[1].invested = Q(600)
    /\ fm.cash = Q(1400)

\* C8: in every engine state and for every target with a goal other than
\* zero, reached is current >= goal and progress is current / goal * 100
\* capped at 100.
C8_TargetStatus ==
    LET ts == targets_status(fm)
    IN  \A k \in 1..Len(fm.targets) :
            fm.targets[k].goal_value # Zero =>
                /\ ts.statuses[k].current = check_function(fm.targets[k], fm)
                /\ ts.statuses[k].reached <=>
                      ~RLt(ts.statuses[k].current, fm.targets[k].goal_value)
                /\ ts.statuses[k].progress =
                      IF RLt(RDiv(RMul(ts.statuses[k].current, Q(100)),
                                  fm.targets[k].goal_value), Q(100))
                      THEN RDiv(RMul(ts.statuses[k].current, Q(100)),
                                fm.targets[k].goal_value)
                      ELSE Q(100)
                /\ RLe(ts.statuses[k].progress, Q(100))

\* A snapshot of a target whose metric is above its goal: reached, at 100.
C8_Witness ==
    /\ fm.history # <<>>
    /\ \E k \in 1..Len(fm.targets) :
          /\ k \in DOMAIN Last(fm.history).targets
          /\ Last(fm.history).targets[k].name = fm.targets[k].name
          /\ RLt(fm.targets[k].goal_value, Last(fm.history).targets[k].current)
          /\ Last(fm.history).targets[k].reached
          /\ Last(fm.history).targets[k].progress = Q(100)

\* The investments of two engines were constructed with the same arguments.
SameInvestments(f, g) ==
    /\ Len(f.investments) = Len(g.investments)
    /\ \A i \in 1..Len(f.investments) :
          LET a == f.investments[i]
              b == g.investments[i]
          IN  /\ a.name = b.name
              /\ a.strt_amount = b.strt_amount
              /\ a.yearly_return_rate = b.yearly_return_rate
              /\ a.volatility = b.volatility
              /\ a.dividend_per = b.dividend_per

\* C9: two engines built with the same seed and configuration and the same
\* investments show, after the same number of steps, the same cash and
\* investments_total month by month, in whatever order they were built and
\* stepped.
C9_SameSeedSameTrajectory ==
    /\ fm # NoEngine /\ fm2 # NoEngine
    /\ SameInvestments(fm, fm2)
    /\ Len(fm.history) = Len(fm2.history)
    =>  \A k \in 1..Len(fm.history) :
            /\ fm.history[k].cash = fm2.history[k].cash
            /\ fm.history[k].investments_total = fm2.history[k].investments_total

\* C10: a step that raises leaves cash, the amounts, the events' executed
\* flags, the month and the history as they were before the call.
C10_NoPartialStep ==
    LET s == step_month(fm, rng)
    IN  CanStep /\ s.err # "none" =>
          /\ s.fm.cash = fm.cash
          /\ s.fm.month = fm.month
          /\ s.fm.history = fm.history
          /\ s.fm.incomes = fm.incomes
          /\ s.fm.expenses = fm.expenses
          /\ s.fm.investments = fm.investments
          /\ \A i \in 1..Len(fm.events) :
                s.fm.events[i].executed = fm.events[i].executed

\* C11: add_income and add_expense with a recurrence below 1 raise (the
\* ValueError of _validate_recurrence) and leave the engine as it was;
\* every income and expense the engine holds has a recurrence of at least 1.
C11_InvalidRecurrenceRejected ==
    /\ \A x \in IncomeInputs : x.recurrence < 1 =>
          /\ add_income_result(fm, x).err = "ValueError"
          /\ add_income_result(fm, x).fm = fm
    /\ \A x \in ExpenseInputs : x.recurrence < 1 =>
          /\ add_expense_result(fm, x).err = "ValueError"
          /\ add_expense_result(fm, x).fm = fm
    /\ \A i \in 1..Len(fm.incomes) : fm.incomes[i].recurrence >= 1
    /\ \A i \in 1..Len(fm.expenses) : fm.expenses[i].recurrence >= 1

\* An engine that holds a flow, has stepped, has room for one more entity
\* and is offered an income and an expense of recurrence below 1.
C11_Witness ==
    /\ fm.incomes # <<>> /\ fm.history # <<>>
    /\ NumEntities(fm) + removed < MaxEntities
    /\ \E x \in IncomeInputs : x.recurrence < 1 /\ add_income_result(fm, x).err # "none"
    /\ \E x \in ExpenseInputs : x.recurrence < 1 /\ add_expense_result(fm, x).err # "none"

\* The positions of collection coll that hold the name.
Named(coll, obj_name) == {i \in 1..Len(coll) : coll[i].name = obj_name}

\* C12: delete_object on a known type returns without raising; it returns
\* True exactly when the collection holds the name; on False the engine is
\* unchanged; an income, expense or investment stays in its place with
\* active = False, the rest of the engine as it was; an event or target is
\* the first of its name and is taken out, the others keeping their order.
C12_DeleteObject ==
    \A d \in LookupInputs :
        LET t == Lower(d[1])
            r == delete_object_result(fm, d[1], d[2])
            coll == Collection(fm, t)
            after == Collection(r.fm, t)
            hits == Named(coll, d[2])
        IN  t \in EntityTypes =>
              /\ r.err = "none"
              /\ r.found <=> hits # {}
              /\ ~r.found => r.fm = fm
              /\ hits # {} /\ HasIsActive(t) =>
                    /\ Len(after) = Len(coll)
                    /\ ~after[MinOf(hits)].active
                    /\ \A i \in 1..Len(coll) : after[i].name = coll[i].name
              /\ hits # {} /\ ~HasIsActive(t) =>
                    after = RemoveAt(coll, MinOf(hits))

\* amount / recurrence summed over the active flows of a collection.
EquivalentSum(flows) ==
    RSum([i \in 1..Len(flows) |->
            IF flows[i].active THEN RDiv(flows[i].amount, Q(flows[i].recurrence))
            ELSE Zero])

\* The amounts of the active investments, summed.
ActiveInvested(investments) ==
    RSum([i \in 1..Len(investments) |->
            IF investments[i].active THEN investments[i].amount ELSE Zero])

\* The engine before the snapshot block of a step, which evaluates the
\* targets and with them the aggregates.
BeforeSnapshot(f, state) == Stages(StartStep(f, state), 1, LastStage - 1)

\* C13: total_monthly_income_equivalent is the sum of amount / recurrence
\* over the active incomes, plus amount * dividend_per / 12 over the active
\* investments when reinvest_dividends is false and nothing from the
\* investments when it is true; total_monthly_expense_equivalent and
\* total_investments sum the active entities only; the block of a step that
\* evaluates them leaves cash and the collections as they were.
C13_Aggregates ==
    /\ total_monthly_income_equivalent(fm) =
          RAdd(EquivalentSum(fm.incomes),
               IF fm.reinvest_dividends THEN Zero ELSE DividendSum(fm.investments))
    /\ total_monthly_expense_equivalent(fm) = EquivalentSum(fm.expenses)
    /\ total_investments(fm) = ActiveInvested(fm.investments)
    /\ LET b == BeforeSnapshot(fm, rng)
           a == step_snapshot(b)
       IN  CanStep /\ b.err = "none" =>
             /\ a.fm.cash = b.fm.cash
             /\ a.fm.incomes = b.fm.incomes
             /\ a.fm.expenses = b.fm.expenses
             /\ a.fm.investments = b.fm.investments

\* Dividends paid to cash: after a step, an active income of recurrence 2
\* and an active investment with dividends both count in the income
\* equivalent.
C13_Witness ==
    /\ fm.history # <<>>
    /\ ~fm.reinvest_dividends
    /\ \E i \in 1..Len(fm.incomes) : fm.incomes[i].active /\ fm.incomes[i].recurrence = 2
    /\ \E i \in 1..Len(fm.investments) :
          fm.investments[i].active /\ RLt(Zero, fm.investments[i].dividend_per)
    /\ RLt(EquivalentSum(fm.incomes), total_monthly_income_equivalent(fm))

\* C14: a step on an engine that holds a target with goal 0 raises, and no
\* snapshot holds a progress that is not a number of at most 100.
C14_ZeroGoalRejected ==
    /\ CanStep /\ (\E k \in 1..Len(fm.targets) : fm.targets[k].goal_value = Zero)
          => step_month(fm, rng).err # "none"
    /\ \A h \in 1..Len(fm.history) : \A k \in DOMAIN fm.history[h].targets :
          /\ fm.history[h].targets[k].progress # NegInf
          /\ RLe(fm.history[h].targets[k].progress, Q(100))

\* The month the engine was constructed with: no call moves it.
StartMonth(f) == f.month - Len(f.history)

\* A step that returns appends one snapshot to the history it found.
StepAppendsOne ==
    LET s == step_month(fm, rng)
    IN  CanStep /\ s.err = "none" =>
          /\ Len(s.fm.history) = Len(fm.history) + 1
          /\ SubSeq(s.fm.history, 1, Len(fm.history)) = fm.history

\* The i-th snapshot (from 0) is that of month start_month + i.
MonthsInOrder ==
    \A i \in 1..Len(fm.history) : fm.history[i].month = StartMonth(fm) + i - 1

\* C15: a step that returns appends exactly one snapshot; no call changes
\* or removes a snapshot of the history; the i-th snapshot has month
\* start_month + i and the history is month - start_month long, start_month
\* being the month given to the constructor.
C15_HistoryAppendOnly ==
    /\ [](StepAppendsOne /\ MonthsInOrder /\ StartMonth(fm) \in {c.start_month : c \in Configs})
    /\ [][/\ Len(fm'.history) >= Len(fm.history)
          /\ SubSeq(fm'.history, 1, Len(fm.history)) = fm.history
          /\ StartMonth(fm') = StartMonth(fm)]_vars

\* Two steps from month 11 with a deactivation on the way.
C15_Witness ==
    /\ Len(fm.history) = 2
    /\ fm.history[1].month = 11 /\ fm.history[2].month = 12 /\ fm.month = 13
    /\ \E i \in 1..Len(fm.investments) : ~fm.investments[i].active
    /\ fm.history[1].investments_total # fm.history[2].investments_total

YearlyStage == 6

\* The running state of a step on the engine before its yearly-growth block.
BeforeYearly == Stages(StartStep(fm, rng), 1, YearlyStage - 1)

\* The yearly-growth block of that step multiplied the amount of every
\* active investment by 1 + yearly_return_rate and left the others alone.
GrowthApplied ==
    LET b == BeforeYearly
        a == step_yearly(b)
    IN  \A i \in 1..Len(b.fm.investments) :
            a.fm.investments[i] =
                IF b.fm.investments[i].active
                THEN [b.fm.investments[i] EXCEPT
                        !.amount = RMul(@, RAdd(One, b.fm.investments[i].yearly_return_rate))]
                ELSE b.fm.investments[i]

GrowthSkipped == step_yearly(BeforeYearly).fm = BeforeYearly.fm

\* C16 (as amended): a step applies the yearly growth to every active
\* investment when (month + 1) mod 12 = 0 for the engine's month at the
\* call, and to none otherwise.
C16_GrowthAtYearEnd ==
    CanStep /\ BeforeYearly.err = "none" =>
        IF (fm.month + 1) % 12 = 0 THEN GrowthApplied ELSE GrowthSkipped

\* C16 as stated: those steps are the 12th, 24th, ... calls of the run.
C16_EveryTwelfthCall ==
    CanStep /\ BeforeYearly.err = "none" =>
        /\ IF (fm.month + 1) % 12 = 0 THEN GrowthApplied ELSE GrowthSkipped
        /\ (fm.month + 1) % 12 = 0 <=> (Len(fm.history) + 1) % 12 = 0

\* The first step of an engine started at month 11, holding B alone:
\* 500 grown by 20% and 810 swept in.
C16_Witness ==
    /\ Len(fm.history) = 1 /\ fm.history[1].month = 11
    /\ Len(fm.investments) = 1
    /\ fm.investments[1].active /\ fm.investments[1].volatility = Zero
    /\ fm.investments[1].amount =
          RAdd(RMul(fm.investments[1].strt_amount,
                    RAdd(One, fm.investments[1].yearly_return_rate)), Q(810))

\* The flow as a step in the given month leaves it, no event touching it:
\* grown once by its rate when it is active, growing and due, else as it was.
Grown(month, flow) ==
    IF flow.active /\ flow.inc /\ month % flow.recurrence = 0
    THEN [flow EXCEPT !.amount = RMul(@, RAdd(One, flow.increment_rate))]
    ELSE flow

\* C17: with no events, a step that returns settles the due flows at the
\* amounts they had before the call, then multiplies by 1 + rate the amount
\* of each active flow with growth enabled that was due in that month, once,
\* and leaves every other flow as it was, the flows with growth disabled
\* among them; no other call changes a flow's amount.  (So the k-th due
\* month settles initial_amount * (1 + rate)^k.)
C17_GrowthAfterSettlement ==
    [][/\ Len(fm'.history) = Len(fm.history) + 1 /\ fm.events = <<>> =>
             /\ fm'.incomes = [i \in 1..Len(fm.incomes) |-> Grown(fm.month, fm.incomes[i])]
             /\ fm'.expenses = [i \in 1..Len(fm.expenses) |-> Grown(fm.month, fm.expenses[i])]
             /\ Last(fm'.history).income = Round2(DueSum(fm.month, fm.incomes))
             /\ Last(fm'.history).expense = Round2(DueSum(fm.month, fm.expenses))
       /\ Len(fm'.history) = Len(fm.history) =>
             /\ \A i \in 1..Len(fm.incomes) : fm'.incomes[i].amount = fm.incomes[i].amount
             /\ \A i \in 1..Len(fm.expenses) : fm'.expenses[i].amount = fm.expenses[i].amount]_vars

\* A monthly expense of 6000 growing 5%: 6000 then 6300 charged, 6615 next;
\* beside it the income due every second month, grown once.
C17_Witness ==
    /\ Len(fm.history) = 2
    /\ Len(fm.expenses) = 1 /\ fm.expenses[1].inc /\ fm.expenses[1].recurrence = 1
    /\ fm.history[1].expense = Q(6000)
    /\ fm.history[2].expense = Q(6300)
    /\ fm.expenses[1].amount = Q(6615)
    /\ Len(fm.incomes) = 1 /\ fm.incomes[1].inc /\ fm.incomes[1].recurrence = 2
    /\ fm.incomes[1].amount = RMul(<<1605, 16>>, <<21, 20>>)

\* The events a step on engine f attempts: at their trigger month, not fired.
Pending(f) ==
    {i \in 1..Len(f.events) :
        f.events[i].trigger_month = f.month /\ ~f.events[i].executed}

\* The entity an event's action finds in engine f: <<kind, position>>.
Found(f, i) ==
    LET r == get_object(f, f.events[i].action.obj_type, f.events[i].action.obj_name)
    IN  <<r.kind, r.idx>>

\* What an operation makes of amount a.
Effect(act, a) ==
    CASE act.operation = "add" -> RAdd(a, act.value)
      [] act.operation = "multiply" -> RMul(a, act.value)
      [] act.operation = "reduce_percent" -> RMul(a, RSub(One, act.value))
      [] act.operation = "add_percent" -> RMul(a, RAdd(One, act.value))

\* Every pending event finds an income or expense, each a different one.
PendingOnFlows(f) ==
    /\ Pending(f) # {}
    /\ \A i \in Pending(f) :
          /\ Found(f, i)[1] \in {"income", "expense"} /\ Found(f, i)[2] # 0
          /\ f.events[i].action.operation \in Operations
          /\ \A j \in Pending(f) \ {i} : Found(f, j) # Found(f, i)

\* The flows of a kind with the pending events' operations applied.
Reflected(f, kind) ==
    [k \in 1..Len(Collection(f, kind)) |->
        IF \E i \in Pending(f) : Found(f, i) = <<kind, k>>
        THEN LET i == CHOOSE i \in Pending(f) : Found(f, i) = <<kind, k>>
             IN  [Collection(f, kind)[k] EXCEPT
                    !.amount = Effect(f.events[i].action, @)]
        ELSE Collection(f, kind)[k]]

\* C18: an action applies its operation to the amount of the entity found;
\* a step that returns fires the events whose trigger month is the engine's
\* month before it settles: the snapshot of that month has the month of the
\* call, and its income, expense and cash are those of the flows with the
\* events' operations applied.
C18_EventsBeforeSettlement ==
    /\ \A act \in ActionInputs :
          LET r == get_object(fm, act.obj_type, act.obj_name)
          IN  r.idx # 0 /\ HasIsActive(r.kind) =>
                action_call(fm, act) =
                    [fm |-> SetAmount(fm, r.kind, r.idx,
                                      Effect(act, Collection(fm, r.kind)[r.idx].amount)),
                     err |-> "none"]
    /\ LET s == step_month(fm, rng)
           g == [fm EXCEPT !.incomes = Reflected(fm, "income"),
                           !.expenses = Reflected(fm, "expense")]
       IN  CanStep /\ PendingOnFlows(fm) /\ s.err = "none" =>
             /\ Last(s.fm.history).month = fm.month
             /\ Last(s.fm.history).income = Round2(DueSum(fm.month, g.incomes))
             /\ Last(s.fm.history).expense = Round2(DueSum(fm.month, g.expenses))
             /\ s.fm.cash = BalanceCash(fm, g, s)
             /\ Last(s.fm.history).cash = Round2(BalanceCash(fm, g, s))
             /\ \A i \in Pending(fm) : s.fm.events[i].executed

\* A raise of 500 on the monthly income of 20000, triggered at month 1:
\* the snapshot of month 1 shows 20500 received.
C18_Witness ==
    /\ Len(fm.history) = 2
    /\ fm.history[1].month = 0 /\ fm.history[1].income = Q(20000)
    /\ fm.history[2].month = 1 /\ fm.history[2].income = Q(20500)
    /\ fm.history[2].cash = Q(55500)
    /\ Len(fm.events) = 1 /\ fm.events[1].executed /\ fm.events[1].trigger_month = 1

\* The sweep of a step on engine f would find something to invest and
\* weights that do not sum to a positive total.
BadSweep(f) ==
    /\ RLt(Zero, f.invest_sweep_rate)
    /\ f.allocation # <<>>
    /\ RLt(Zero, RMul(f.cash, f.invest_sweep_rate))
    /\ RLe(RSum([k \in 1..Len(f.allocation) |-> f.allocation[k].weight]), Zero)

\* The sweep of a step on engine f has nothing to do.
NoSweep(f) ==
    \/ ~RLt(Zero, f.invest_sweep_rate)
    \/ f.allocation = <<>>
    \/ RLe(f.cash, Zero)

\* C19: the sweep block raises (the ValueError of line 166) exactly when
\* the rate is positive, the allocation is not empty, cash * rate is
\* positive when the block is reached and the weights sum to 0 or less, and
\* step_month raises that error exactly then; with the rate 0, the
\* allocation empty or cash at the block 0 or less, the block raises
\* nothing, invests nothing and leaves the engine as it was, whatever the
\* weights.
C19_InvalidAllocation ==
    LET b == BeforeSweep(fm, rng)
        a == step_sweep(b)
    IN  CanStep /\ b.err = "none" =>
          /\ a.err = "ValueError" <=> BadSweep(b.fm)
          /\ a.err \in {"none", "ValueError"}
          /\ step_month(fm, rng).err = "ValueError" <=> BadSweep(b.fm)
          /\ NoSweep(b.fm) =>
                a.err = "none" /\ a.invested_from_sweep = Zero /\ a.fm = b.fm

\* Weights summing to 0: a step raised while cash was positive, and the
\* next one, cash gone below 0, returned with nothing invested.
C19_Witness ==
    /\ failed = 1
    /\ Len(fm.history) = 1
    /\ RLt(Zero, fm.invest_sweep_rate)
    /\ RLe(TotalAlloc(fm), Zero)
    /\ RLt(fm.cash, Zero)
    /\ fm.history[1].invested = Zero

DownFactors == { <<19, 20>>, <<9, 10>>, <<17, 20>>, <<4, 5>>, <<7, 10>> }
UpFactors == { <<21, 20>>, <<11, 10>>, <<23, 20>>, <<6, 5>>, <<13, 10>> }

\* Values of the three uniform draws: one in each bracket of the choice,
\* and those on the thresholds 0.5, 0.6 and 0.8.
DrawInputs ==
    { Zero, <<1, 4>>, <<1, 2>>, <<3, 5>>, <<4, 5>>, <<37, 40>>, <<39, 40>> }

\* C20: whatever the generator draws, revaluation() leaves the amount as it
\* was or multiplies it by one of 0.95, 0.90, 0.85, 0.80, 0.70, 1.05, 1.10,
\* 1.15, 1.20, 1.30; an amount that is not negative stays so; with
\* volatility 0, and on an inactive investment, the amount does not change;
\* nothing but the amount (and its type) changes.
C20_RevaluationFactors ==
    \A i \in 1..Len(fm.investments) : \A u1, u2, u3 \in DrawInputs :
        LET inv == fm.investments[i]
            r == Investment_revalued(inv, u1, u2, u3)
        IN  /\ \/ r.amount = inv.amount
               \/ \E f \in DownFactors \cup UpFactors : r.amount = RMul(inv.amount, f)
            /\ RLe(Zero, inv.amount) => RLe(Zero, r.amount)
            /\ inv.volatility = Zero \/ ~inv.active => r.amount = inv.amount
            /\ [r EXCEPT !.amount = inv.amount, !.float64 = inv.float64] = inv

\* An investment of 1000 with volatility 0.5 after a step without a shock
\* and a step with the down shock 0.95; from there every one of the ten
\* factors is the outcome of some draws.
C20_Witness ==
    /\ Len(fm.history) = 2
    /\ Len(fm.investments) = 1 /\ fm.investments[1].active
    /\ fm.history[1].investments_total = Q(1000)
    /\ fm.history[2].investments_total = Q(950)
    /\ fm.investments[1].amount = RMul(fm.investments[1].strt_amount, <<19, 20>>)
    /\ \A f \in DownFactors \cup UpFactors : \E u1, u2, u3 \in DrawInputs :
          Investment_revalued(fm.investments[1], u1, u2, u3).amount =
              RMul(fm.investments[1].amount, f)

RevaluationStage == 5

\* The running state of a step on the engine before its revaluation block.
BeforeRevaluation == Stages(StartStep(fm, rng), 1, RevaluationStage - 1)

\* The generator's state after k draws from `state`.
RECURSIVE Advance(_, _)
Advance(state, k) == IF k = 0 THEN state ELSE Advance(np_random_next(state), k - 1)

\* The draws revaluation() takes for investment i of running state b, a
\* being the state after the block: none when inactive, three when its
\* amount was shocked, else one.
DrawsOf(b, a, i) ==
    IF ~b.fm.investments[i].active THEN 0
    ELSE IF a.fm.investments[i].amount # b.fm.investments[i].amount THEN 3
    ELSE 1

RECURSIVE DrawsBefore(_, _, _)
DrawsBefore(b, a, i) ==
    IF i = 1 THEN 0 ELSE DrawsBefore(b, a, i - 1) + DrawsOf(b, a, i - 1)

NumActive(investments) ==
    Cardinality({i \in 1..Len(investments) : investments[i].active})

\* C21 (as amended): revaluation takes, for each active investment in
\* collection order, one draw that is compared with the volatility and,
\* only on a shock, a direction draw and a magnitude draw after it; an
\* inactive investment takes none; no other block of a step draws.
C21_DrawsPerInvestment ==
    LET b == BeforeRevaluation
        a == step_revaluation(b)
        n == Len(b.fm.investments)
    IN  CanStep /\ b.err = "none" =>
          /\ b.rng = rng
          /\ \A i \in 1..n :
                LET k == DrawsBefore(b, a, i)
                IN  a.fm.investments[i] =
                        Investment_revalued(b.fm.investments[i],
                                            np_random_rand(Advance(rng, k)),
                                            np_random_rand(Advance(rng, k + 1)),
                                            np_random_rand(Advance(rng, k + 2)))
          /\ a.rng = Advance(rng, DrawsBefore(b, a, n + 1))
          /\ step_month(fm, rng).rng = a.rng

\* C21 as stated: two draws for each active investment, shock or not.
C21_TwoDrawsPerActive ==
    LET b == BeforeRevaluation
        a == step_revaluation(b)
    IN  CanStep /\ b.err = "none" =>
          a.rng = Advance(rng, 2 * NumActive(b.fm.investments))

\* A step on two active investments from the generator seeded with 42: the
\* first was shocked (three draws), the second, of volatility 0, was not
\* (one draw).
C21_Witness ==
    /\ Len(fm.history) = 1
    /\ Len(fm.investments) = 2
    /\ fm.investments[1].active /\ fm.investments[1].float64
    /\ fm.investments[2].active /\ fm.investments[2].volatility = Zero
    /\ rng = Advance(np_random_seed(42), 4)


\* The action of the event at position i finds no active entity in engine f.
Raises(f, i) ==
    NoActiveEntity(f, f.events[i].action.obj_type, f.events[i].action.obj_name)

\* The pending events of engine f whose action raises, in collection order.
Raising(f) == {i \in Pending(f) : Raises(f, i)}

\* Engine f with its pending events among the first k fired: the operation
\* applied to the entity found, the event marked executed.
RECURSIVE Fired(_, _)
Fired(f, k) ==
    IF k = 0 THEN f
    ELSE LET g == Fired(f, k - 1)
             t == Found(g, k)
         IN  IF k \in Pending(g)
             THEN [SetAmount(g, t[1], t[2],
                             Effect(g.events[k].action,
                                    Collection(g, t[1])[t[2]].amount))
                     EXCEPT !.events[k].executed = TRUE, !.events[k].calls = @ + 1]
             ELSE g

\* C22: when the action of a pending event raises, the step raises with the
\* month, the history, the cash and the generator as before the call; the
\* raising event is still pending, with one more invocation; the pending
\* events before it in the collection are fired and their operations are
\* applied, the events after it are untouched; the next step at that month
\* invokes the raising action again and none of the fired ones.
C22_RaisingEventAborts ==
    LET s == step_month(fm, rng)
        first == MinOf(Raising(fm))
        g == Fired(fm, first - 1)
        t == Stages(StartStep(s.fm, s.rng), 1, 1)
    IN  CanStep /\ Raising(fm) # {} =>
          /\ s.err = "AttributeError"
          /\ s.rng = rng
          /\ s.fm.month = fm.month /\ s.fm.history = fm.history
          /\ s.fm.cash = fm.cash
          /\ ~s.fm.events[first].executed
          /\ s.fm.events[first].calls = fm.events[first].calls + 1
          /\ \A j \in Pending(fm) : j < first => s.fm.events[j].executed
          /\ \A j \in 1..Len(fm.events) : j > first => s.fm.events[j] = fm.events[j]
          /\ s.fm = [g EXCEPT !.events[first].calls = @ + 1]
          /\ t.err = "AttributeError"
          /\ t.fm = [s.fm EXCEPT !.events[first].calls = @ + 1]

\* At month 1 the raise on the salary fired and the cut on a rent that does
\* not exist raised: the salary is 20500, the month is still 1 and the
\* history has the one snapshot of month 0.
C22_Witness ==
    /\ failed = 1
    /\ fm.month = 1 /\ Len(fm.history) = 1
    /\ Len(fm.incomes) = 1 /\ fm.incomes[1].amount = Q(20500)
    /\ Len(fm.events) = 2
    /\ fm.events[1].executed /\ fm.events[1].calls = 1
    /\ ~fm.events[2].executed /\ fm.events[2].calls = 1
    /\ fm.events[2].action.obj_name = "Rent"


\* C23: when get_object finds an active income, expense or investment,
\* delete_object of the same type and name returns True and deactivates
\* that very entity, inactive entities of the name before it in the
\* collection notwithstanding, and nothing else changes; when it was the
\* only active entity of that name, get_object then finds none.
C23_DeleteDeactivatesFound ==
    \A d \in LookupInputs :
        LET t == Lower(d[1])
            g == get_object(fm, d[1], d[2])
            r == delete_object_result(fm, d[1], d[2])
        IN  t \in EntityTypes /\ HasIsActive(t) /\ g.idx # 0 =>
              /\ r.err = "none" /\ r.found
              /\ r.fm = CASE t = "income" -> [fm EXCEPT !.incomes[g.idx].active = FALSE]
                          [] t = "expense" -> [fm EXCEPT !.expenses[g.idx].active = FALSE]
                          [] t = "investment" ->
                                 [fm EXCEPT !.investments[g.idx].active = FALSE]
              /\ (\A k \in Named(Collection(fm, t), d[2]) :
                        k # g.idx => ~Collection(fm, t)[k].active)
                    => get_object(r.fm, d[1], d[2]).idx = 0


\* Cash plus the balance of every investment, active or not.
TotalValue(f) ==
    RAdd(f.cash, RSum([k \in 1..Len(f.investments) |-> f.investments[k].amount]))

\* The sweep rate is in [0, 1] and no weight is negative.
SweepInputsValid(f) ==
    /\ RLe(Zero, f.invest_sweep_rate) /\ RLe(f.invest_sweep_rate, One)
    /\ \A k \in 1..Len(f.allocation) : RLe(Zero, f.allocation[k].weight)

\* C24: with the rate in [0, 1] and no negative weight, the sweep block of
\* a step takes out of cash exactly what it deposits, never less than 0 and
\* never more than cash * rate (nothing when cash is negative), leaves a
\* non-negative cash non-negative, and keeps cash plus the balances of all
\* investments as it was; the rest of the step leaves cash as the sweep
\* left it.
C24_SweepConserves ==
    LET b == BeforeSweep(fm, rng)
        a == step_sweep(b)
        moved == RSub(b.fm.cash, a.fm.cash)
        s == step_month(fm, rng)
    IN  CanStep /\ b.err = "none" /\ SweepInputsValid(b.fm) =>
          /\ moved = a.invested_from_sweep
          /\ RLe(Zero, moved)
          /\ RLe(moved, RMax(Zero, RMul(b.fm.cash, b.fm.invest_sweep_rate)))
          /\ RLe(Zero, b.fm.cash) => RLe(Zero, a.fm.cash)
          /\ TotalValue(a.fm) = TotalValue(b.fm)
          /\ s.err = "none" => s.fm.cash = a.fm.cash

\* Half of a cash of 2000 swept with weights 3/5 and 2/5 while the
\* investment of weight 3/5 is inactive: 400 left cash for the other one.
C24_Witness ==
    /\ Len(fm.history) = 1
    /\ fm.invest_sweep_rate = <<1, 2>> /\ fm.allocation = AllocAB
    /\ fm.cash = Q(1600)
    /\ Len(fm.investments) = 2
    /\ fm.investments[1].name = "A" /\ ~fm.investments[1].active
    /\ fm.investments[1].amount = Q(1000)
    /\ fm.investments[2].name = "B" /\ fm.investments[2].active
    /\ RLe(Q(900), fm.investments[2].amount)


\* The positions of the inactive entities of a collection.
Inactive(coll) == {i \in 1..Len(coll) : ~coll[i].active}

\* C25: a step, whether it returns or raises, leaves every inactive income,
\* expense and investment as it was, amount included: events, dividends,
\* revaluation, yearly growth, the sweep and the increments act on active
\* entities only.
C25_InactiveUntouched ==
    LET s == step_month(fm, rng)
    IN  CanStep =>
          /\ \A i \in Inactive(fm.incomes) : s.fm.incomes[i] = fm.incomes[i]
          /\ \A i \in Inactive(fm.expenses) : s.fm.expenses[i] = fm.expenses[i]
          /\ \A i \in Inactive(fm.investments) :
                s.fm.investments[i] = fm.investments[i]


\* A step at month 11 with two investments "B", the first deactivated: the
\* first still holds its 500, the second took the yearly growth and the
\* sweep's deposit.
C25_Witness ==
    /\ Len(fm.history) = 1 /\ fm.history[1].month = 11
    /\ Len(fm.investments) = 2
    /\ fm.investments[1].name = "B" /\ ~fm.investments[1].active
    /\ fm.investments[1].amount = Q(500)
    /\ fm.investments[2].name = "B" /\ fm.investments[2].active
    /\ RLt(Q(600), fm.investments[2].amount)

====
